---- MODULE Spec2Model ----
(***************************************************************************)
(* UGC NET score calculator (src/app.py).                                  *)
(*                                                                         *)
(* One Streamlit script run: load and validate the answer key, take the    *)
(* uploaded response sheet, extract (QuestionID, ChosenOption) pairs page  *)
(* by page, left-join them on the answer key, classify and mark every row, *)
(* summarise, and export.                                                  *)
(*                                                                         *)
(* Text of a PDF page is abstracted to the sequence of its marker          *)
(* occurrences: a token is one match of QID_PATTERN, one match of          *)
(* CHOSEN_PATTERN (each with the digit string its group captured) or a     *)
(* stretch of text neither pattern matches.                                *)
(*                                                                         *)
(* Three specifications share the actions:                                 *)
(*   Spec / FairSpec  the whole script run, on small inputs;               *)
(*   ExtractSpec      extract_answers_from_pdf on every bounded document;  *)
(*   ScoreSpec        calculate_score on every bounded (K, E).             *)
(* Answer keys have at least one row: on a key with the right columns and  *)
(* no rows the outcome of DataFrame.apply(axis=1) depends on the pandas    *)
(* version and is not modelled.                                            *)
(***************************************************************************)
EXTENDS Integers, Sequences, FiniteSets, TLC

VARIABLES
    pc,             \* position of the script run
    key_file,       \* answer_key.xlsx as found on disk
    answer_key,     \* the DataFrame read from it
    uploaded_pdf,   \* st.file_uploader's value
    pageIdx,        \* extract_answers_from_pdf: index of the next page
    question_ids,   \* extract_answers_from_pdf: local list
    chosen_options, \* extract_answers_from_pdf: local list
    my_answers,     \* the extracted DataFrame
    report,         \* calculate_score's report DataFrame
    summary,        \* calculate_score's summary dict (<<>> until computed)
    excel_bytes,    \* generate_excel_report's result (<<>> until computed)
    shown,          \* what the page has rendered in this run
    calls           \* the pipeline functions invoked in this run

vars == <<pc, key_file, answer_key, uploaded_pdf, pageIdx, question_ids,
          chosen_options, my_answers, report, summary, excel_bytes, shown, calls>>

----------------------------------------------------------------------------
(* Bounds *)

MaxQid == 2        \* QuestionIDs are 1..MaxQid
MaxKey == 2        \* rows of an answer key (ScoreSpec)
MaxAns == 3        \* extracted answers (ScoreSpec)
MaxTokens == 3     \* marker tokens of a document, all pages together
MaxPages == 2      \* pages of a document
MaxPipeTokens == 2 \* tokens of a document in the whole-run specification

Options == {1, 2}

\* Digit strings the patterns' (\d+) groups capture.
DigitStrs == {<<2>>, <<0, 1>>, <<1, 2>>, <<0, 0, 7>>}

----------------------------------------------------------------------------
(* Scoring table *)

MARKS_CORRECT == 2
MARKS_WRONG == 0
MARKS_UNATTEMPTED == 0

\* The missing value a left join puts in ChosenOption; extracted options are
\* parsed from \d+ and are never negative.
NaN == -1

isna(x) == x = NaN

----------------------------------------------------------------------------
(* extract_answers_from_pdf *)

RECURSIVE ParseInt(_)
\* int(s) for a string of decimal digits.
ParseInt(d) ==
    IF d = <<>> THEN 0
    ELSE ParseInt(SubSeq(d, 1, Len(d) - 1)) * 10 + d[Len(d)]

\* text = page.extract_text() or ""
TextOf(page) == IF page.has_text THEN page.tokens ELSE <<>>

Captures(text, kind) ==
    LET m == SelectSeq(text, LAMBDA t : t.kind = kind)
    IN  [i \in 1..Len(m) |-> m[i].digits]

\* QID_PATTERN.findall(text)
QidFindall(text) == Captures(text, "qid")

\* CHOSEN_PATTERN.findall(text)
ChosenFindall(text) == Captures(text, "chosen")

MinOf(a, b) == IF a <= b THEN a ELSE b

ZipShifted(qids, chosens) ==
    [i \in 1..MinOf(Len(qids), Len(chosens) - 1) |-> <<qids[i], chosens[i + 1]>>]

\* zip(qids, chosens)
Zip(qids, chosens) ==
    [i \in 1..MinOf(Len(qids), Len(chosens)) |-> <<qids[i], chosens[i]>>]

\* pd.DataFrame({"QuestionID": question_ids, "ChosenOption": chosen_options})
DataFrameOf(qs, cs) ==
    [i \in 1..Len(qs) |-> [QuestionID |-> qs[i], ChosenOption |-> cs[i]]]

----------------------------------------------------------------------------
(* calculate_score *)

\* The rows a left join gives one answer-key row: one per extracted answer
\* with the same QuestionID, in the order of E, or one row with a missing
\* ChosenOption when there is none.
RowsFor(k, E) ==
    LET m == SelectSeq(E, LAMBDA e : e.QuestionID = k.QuestionID)
    IN  IF m = <<>>
        THEN <<[QuestionID |-> k.QuestionID, CorrectOption |-> k.CorrectOption,
                ChosenOption |-> NaN]>>
        ELSE [i \in 1..Len(m) |->
                [QuestionID |-> k.QuestionID, CorrectOption |-> k.CorrectOption,
                 ChosenOption |-> m[i].ChosenOption]]

RECURSIVE LeftRows(_, _)
LeftRows(K, E) ==
    IF K = <<>> THEN <<>> ELSE RowsFor(Head(K), E) \o LeftRows(Tail(K), E)

KeyQids(K) == {K[i].QuestionID : i \in 1..Len(K)}

MergeOuter(K, E) ==
    LET extra == SelectSeq(E, LAMBDA e : e.QuestionID \notin KeyQids(K))
    IN  LeftRows(K, E) \o
        [i \in 1..Len(extra) |->
            [QuestionID |-> extra[i].QuestionID, CorrectOption |-> NaN,
             ChosenOption |-> extra[i].ChosenOption]]

\* pd.merge(answer_key_df, my_answers_df, on="QuestionID", how="left")
Merge(K, E) == LeftRows(K, E)

result_row_swapped(row) ==
    IF isna(row.ChosenOption) THEN "Not Attempted"
    ELSE IF row.ChosenOption = row.CorrectOption THEN "Wrong"
    ELSE "Correct"

result_row(row) ==
    IF isna(row.ChosenOption) THEN "Not Attempted"
    ELSE IF row.ChosenOption = row.CorrectOption THEN "Correct"
    ELSE "Wrong"

marks_row_one(row) ==
    IF row.Result = "Correct" THEN 1
    ELSE IF row.Result = "Wrong" THEN MARKS_WRONG
    ELSE MARKS_UNATTEMPTED

marks_row(row) ==
    IF row.Result = "Correct" THEN MARKS_CORRECT
    ELSE IF row.Result = "Wrong" THEN MARKS_WRONG
    ELSE MARKS_UNATTEMPTED

\* report["Result"] = report.apply(result_row, axis=1)
WithResult(rows) ==
    [i \in 1..Len(rows) |->
        [QuestionID |-> rows[i].QuestionID, CorrectOption |-> rows[i].CorrectOption,
         ChosenOption |-> rows[i].ChosenOption, Result |-> result_row(rows[i])]]

\* report["Marks"] = report.apply(marks_row, axis=1)
WithMarks(rows) ==
    [i \in 1..Len(rows) |->
        [QuestionID |-> rows[i].QuestionID, CorrectOption |-> rows[i].CorrectOption,
         ChosenOption |-> rows[i].ChosenOption, Result |-> rows[i].Result,
         Marks |-> marks_row(rows[i])]]

\* (report["Result"] == r).sum()
CountResult(rows, r) == Cardinality({i \in 1..Len(rows) : rows[i].Result = r})

RECURSIVE SumMarks(_)
\* report["Marks"].sum()
SumMarks(rows) ==
    IF rows = <<>> THEN 0 ELSE Head(rows).Marks + SumMarks(Tail(rows))

ReportOf(K, E) == WithMarks(WithResult(Merge(K, E)))

SummaryOf(rows) ==
    [Correct |-> CountResult(rows, "Correct"),
     Wrong |-> CountResult(rows, "Wrong"),
     NotAttempted |-> CountResult(rows, "Not Attempted"),
     TotalScore |-> SumMarks(rows)]

----------------------------------------------------------------------------
(* generate_excel_report *)

ExcelOf(rows, summ) ==
    [DetailedReport |-> rows,
     Summary |-> << <<"Correct", summ.Correct>>, <<"Wrong", summ.Wrong>>,
                    <<"Not Attempted", summ.NotAttempted>>,
                    <<"Total Score", summ.TotalScore>> >>]

----------------------------------------------------------------------------
(* Inputs *)

Entries == [QuestionID : 1..MaxQid, CorrectOption : Options]

Answers == [QuestionID : 1..MaxQid, ChosenOption : Options]

SeqsUpTo(S, lo, hi) == UNION {[1..n -> S] : n \in lo..hi}

Keys == SeqsUpTo(Entries, 1, MaxKey)

Extracted == SeqsUpTo(Answers, 0, MaxAns)

OtherText == [kind |-> "other", digits |-> <<>>]

Tokens == [kind : {"qid", "chosen"}, digits : DigitStrs] \cup {OtherText}

\* The tokens of ts that f puts on page p (f is non-decreasing).
PageTokens(ts, f, p) ==
    LET idx == {i \in 1..Len(ts) : f[i] = p}
    IN  IF idx = {} THEN <<>>
        ELSE SubSeq(ts, CHOOSE i \in idx : \A j \in idx : i <= j,
                        CHOOSE i \in idx : \A j \in idx : j <= i)

\* The document of P pages that holds the tokens ts, token i on page f[i];
\* a page without tokens has the text "" (blank) or no text at all.
DocOf(ts, f, P, blank) ==
    [p \in 1..P |->
        LET toks == PageTokens(ts, f, p)
        IN  [has_text |-> (toks # <<>>) \/ blank, tokens |-> toks]]

NonDecreasing(n, P) ==
    {g \in [1..n -> 1..P] : \A i, j \in 1..n : i <= j => g[i] <= g[j]}

PipeTokens ==
    { [kind |-> "qid", digits |-> <<1>>], [kind |-> "qid", digits |-> <<0, 0, 7>>],
      [kind |-> "chosen", digits |-> <<1>>], [kind |-> "chosen", digits |-> <<2>>] }

PipeKeys ==
    { << [QuestionID |-> 1, CorrectOption |-> 1] >>,
      << [QuestionID |-> 1, CorrectOption |-> 2], [QuestionID |-> 2, CorrectOption |-> 1] >> }

NoKey == [columns_ok |-> FALSE, rows |-> <<>>]

KeyFiles ==
    { [readable |-> FALSE, columns_ok |-> FALSE, rows |-> <<>>] }
    \cup [readable : {TRUE}, columns_ok : BOOLEAN, rows : PipeKeys]

NoPdf == [present |-> FALSE, pages |-> <<>>]

----------------------------------------------------------------------------
(* Initial states *)

Fresh ==
    /\ pageIdx = 1
    /\ question_ids = <<>>
    /\ chosen_options = <<>>
    /\ report = <<>>
    /\ summary = <<>>
    /\ excel_bytes = <<>>
    /\ shown = {}
    /\ calls = {}

\* The script starts: nothing is loaded.
Init ==
    /\ pc = "load"
    /\ key_file \in KeyFiles
    /\ answer_key = NoKey
    /\ \/ uploaded_pdf = NoPdf
       \/ \E P \in 0..MaxPages, ts \in SeqsUpTo(PipeTokens, 0, MaxPipeTokens),
             blank \in BOOLEAN :
             \E f \in NonDecreasing(Len(ts), P) :
                uploaded_pdf = [present |-> TRUE, pages |-> DocOf(ts, f, P, blank)]
    /\ my_answers = <<>>
    /\ Fresh

\* extract_answers_from_pdf is entered with a document.
ExtractInit ==
    /\ pc = "extract"
    /\ key_file = [readable |-> TRUE, columns_ok |-> TRUE,
                   rows |-> << [QuestionID |-> 1, CorrectOption |-> 1] >>]
    /\ answer_key = [columns_ok |-> TRUE, rows |-> key_file.rows]
    /\ \E P \in 0..MaxPages, ts \in SeqsUpTo(Tokens, 0, MaxTokens), blank \in BOOLEAN :
         \E f \in NonDecreasing(Len(ts), P) :
            uploaded_pdf = [present |-> TRUE, pages |-> DocOf(ts, f, P, blank)]
    /\ my_answers = <<>>
    /\ Fresh

\* calculate_score is entered with an answer key K and extracted answers E.
ScoreInit ==
    /\ pc = "score"
    /\ \E K \in Keys :
         /\ key_file = [readable |-> TRUE, columns_ok |-> TRUE, rows |-> K]
         /\ answer_key = [columns_ok |-> TRUE, rows |-> K]
    /\ uploaded_pdf = NoPdf
    /\ my_answers \in Extracted
    /\ Fresh

----------------------------------------------------------------------------
(* The script run *)

\* try: answer_key = pd.read_excel(ANSWER_KEY_FILE) except: st.error; st.stop
LoadAnswerKey ==
    /\ pc = "load"
    /\ IF key_file.readable
       THEN /\ answer_key' = [columns_ok |-> key_file.columns_ok, rows |-> key_file.rows]
            /\ pc' = "validate"
            /\ UNCHANGED shown
       ELSE /\ shown' = shown \cup {"error: answer key not found"}
            /\ pc' = "stopped"
            /\ UNCHANGED answer_key
    /\ UNCHANGED <<key_file, uploaded_pdf, pageIdx, question_ids, chosen_options,
                   my_answers, report, summary, excel_bytes, calls>>

ValidateColumnsLax ==
    /\ pc = "validate"
    /\ pc' = "upload"
    /\ shown' = IF answer_key.columns_ok THEN shown
                ELSE shown \cup {"error: answer key columns"}
    /\ UNCHANGED <<key_file, answer_key, uploaded_pdf, pageIdx, question_ids,
                   chosen_options, my_answers, report, summary, excel_bytes, calls>>

\* if not required_cols.issubset(set(answer_key.columns)): st.error; st.stop
ValidateColumns ==
    /\ pc = "validate"
    /\ IF answer_key.columns_ok
       THEN pc' = "upload" /\ UNCHANGED shown
       ELSE /\ shown' = shown \cup {"error: answer key columns"}
            /\ pc' = "stopped"
    /\ UNCHANGED <<key_file, answer_key, uploaded_pdf, pageIdx, question_ids,
                   chosen_options, my_answers, report, summary, excel_bytes, calls>>

\* if uploaded_pdf is not None: st.success ... else: st.warning
CheckUpload ==
    /\ pc = "upload"
    /\ IF uploaded_pdf.present
       THEN /\ shown' = shown \cup {"success: uploaded"}
            /\ pc' = "button"
       ELSE /\ shown' = shown \cup {"warning: please upload"}
            /\ pc' = "end"
    /\ UNCHANGED <<key_file, answer_key, uploaded_pdf, pageIdx, question_ids,
                   chosen_options, my_answers, report, summary, excel_bytes, calls>>

\* if st.button("Calculate Score"): the user pressed it, or the run ends.
Button ==
    /\ pc = "button"
    /\ \E pressed \in BOOLEAN :
         IF pressed
         THEN /\ pc' = "extract"
              /\ calls' = calls \cup {"extract_answers_from_pdf"}
         ELSE /\ pc' = "end"
              /\ UNCHANGED calls
    /\ pageIdx' = 1
    /\ question_ids' = <<>>
    /\ chosen_options' = <<>>
    /\ UNCHANGED <<key_file, answer_key, uploaded_pdf, my_answers, report, summary,
                   excel_bytes, shown>>

\* One iteration of "for page in pdf.pages".
ExtractPage ==
    /\ pc = "extract"
    /\ pageIdx <= Len(uploaded_pdf.pages)
    /\ LET text == TextOf(uploaded_pdf.pages[pageIdx])
           pairs == Zip(QidFindall(text), ChosenFindall(text))
       IN  /\ question_ids' = question_ids \o
                 [i \in 1..Len(pairs) |-> ParseInt(pairs[i][1])]
           /\ chosen_options' = chosen_options \o
                 [i \in 1..Len(pairs) |-> ParseInt(pairs[i][2])]
    /\ pageIdx' = pageIdx + 1
    /\ UNCHANGED <<pc, key_file, answer_key, uploaded_pdf, my_answers, report,
                   summary, excel_bytes, shown, calls>>

\* The loop is over: return pd.DataFrame({...}).
ExtractReturn ==
    /\ pc = "extract"
    /\ pageIdx > Len(uploaded_pdf.pages)
    /\ my_answers' = DataFrameOf(question_ids, chosen_options)
    /\ pc' = "check_empty"
    /\ UNCHANGED <<key_file, answer_key, uploaded_pdf, pageIdx, question_ids,
                   chosen_options, report, summary, excel_bytes, shown, calls>>

CheckEmptyLax ==
    /\ pc = "check_empty"
    /\ pc' = "score"
    /\ shown' = IF my_answers = <<>> THEN shown \cup {"error: could not extract"}
                ELSE shown
    /\ UNCHANGED <<key_file, answer_key, uploaded_pdf, pageIdx, question_ids,
                   chosen_options, my_answers, report, summary, excel_bytes, calls>>

\* if my_answers.empty: st.error; st.stop
CheckEmpty ==
    /\ pc = "check_empty"
    /\ IF my_answers = <<>>
       THEN /\ shown' = shown \cup {"error: could not extract"}
            /\ pc' = "stopped"
       ELSE pc' = "score" /\ UNCHANGED shown
    /\ UNCHANGED <<key_file, answer_key, uploaded_pdf, pageIdx, question_ids,
                   chosen_options, my_answers, report, summary, excel_bytes, calls>>

\* report, summary = calculate_score(answer_key, my_answers)
CalculateScore ==
    /\ pc = "score"
    /\ report' = ReportOf(answer_key.rows, my_answers)
    /\ summary' = <<SummaryOf(report')>>
    /\ calls' = calls \cup {"calculate_score"}
    /\ pc' = "display"
    /\ UNCHANGED <<key_file, answer_key, uploaded_pdf, pageIdx, question_ids,
                   chosen_options, my_answers, excel_bytes, shown>>

\* The four metrics and st.dataframe(report).
Display ==
    /\ pc = "display"
    /\ shown' = shown \cup {"summary", "report"}
    /\ pc' = "export"
    /\ UNCHANGED <<key_file, answer_key, uploaded_pdf, pageIdx, question_ids,
                   chosen_options, my_answers, report, summary, excel_bytes, calls>>

\* excel_bytes = generate_excel_report(report, summary)
GenerateExcel ==
    /\ pc = "export"
    /\ excel_bytes' = <<ExcelOf(report, summary[1])>>
    /\ calls' = calls \cup {"generate_excel_report"}
    /\ pc' = "download"
    /\ UNCHANGED <<key_file, answer_key, uploaded_pdf, pageIdx, question_ids,
                   chosen_options, my_answers, report, summary, shown>>

\* st.download_button(...); st.info("Report generated successfully!")
Download ==
    /\ pc = "download"
    /\ shown' = shown \cup {"download", "info: report generated"}
    /\ pc' = "end"
    /\ UNCHANGED <<key_file, answer_key, uploaded_pdf, pageIdx, question_ids,
                   chosen_options, my_answers, report, summary, excel_bytes, calls>>

Next ==
    \/ LoadAnswerKey
    \/ ValidateColumns
    \/ CheckUpload
    \/ Button
    \/ ExtractPage
    \/ ExtractReturn
    \/ CheckEmpty
    \/ CalculateScore
    \/ Display
    \/ GenerateExcel
    \/ Download

Spec == Init /\ [][Next]_vars

\* The script is run top to bottom by one thread: a step that can be taken is.
FairSpec == Spec /\ WF_vars(Next)

ExtractNext == ExtractPage \/ ExtractReturn

ExtractSpec == ExtractInit /\ [][ExtractNext]_vars

ScoreNext == CalculateScore

ScoreSpec == ScoreInit /\ [][ScoreNext]_vars

----------------------------------------------------------------------------
(* Properties of calculate_score (ScoreSpec) *)

K == answer_key.rows

E == my_answers

Scored == "calculate_score" \in calls

UniqueQids(rows) ==
    \A i, j \in 1..Len(rows) : rows[i].QuestionID = rows[j].QuestionID => i = j

\* C1: for an answer key with unique QuestionIDs and any extracted answers,
\* repeated QuestionIDs included, the report has exactly len(K) rows, one per
\* answer-key entry.
C1_OneRowPerKeyEntry ==
    (Scored /\ UniqueQids(K)) =>
        /\ Len(report) = Len(K)
        /\ \A i \in 1..Len(K) : report[i].QuestionID = K[i].QuestionID

\* C2: Correct + Wrong + Not Attempted equals the number of answer-key entries.
C2_CountsSumToKey ==
    Scored =>
        summary[1].Correct + summary[1].Wrong + summary[1].NotAttempted = Len(K)

\* C3: every row gets exactly one of the three results: Not Attempted when it
\* has no chosen option, Correct when the chosen option is present and equals
\* the correct option, Wrong when it is present and differs.
C3_Classification ==
    Scored =>
        \A i \in 1..Len(report) :
            LET row == report[i]
            IN  /\ row.Result \in {"Correct", "Wrong", "Not Attempted"}
                /\ row.ChosenOption = NaN => row.Result = "Not Attempted"
                /\ (row.ChosenOption # NaN /\ row.ChosenOption = row.CorrectOption)
                      => row.Result = "Correct"
                /\ (row.ChosenOption # NaN /\ row.ChosenOption # row.CorrectOption)
                      => row.Result = "Wrong"

C3_Witness ==
    /\ Scored
    /\ \A r \in {"Correct", "Wrong", "Not Attempted"} :
          \E i \in 1..Len(report) : report[i].Result = r

\* C4: Total Score is the sum of the rows' Marks and is 2 * Correct; a row's
\* Marks is 2 when its Result is Correct and 0 otherwise.
C4_TotalScore ==
    Scored =>
        /\ \A i \in 1..Len(report) :
              report[i].Marks = IF report[i].Result = "Correct" THEN 2 ELSE 0
        /\ summary[1].TotalScore = SumMarks(report)
        /\ summary[1].TotalScore =
              2 * summary[1].Correct + 0 * summary[1].Wrong + 0 * summary[1].NotAttempted

C4_Witness ==
    /\ Scored
    /\ summary[1].Correct >= 1
    /\ summary[1].Wrong >= 1
    /\ summary[1].NotAttempted >= 1

InKey(e) == e.QuestionID \in KeyQids(K)

\* C8: every report row's QuestionID is in the answer key, and extracted
\* answers whose QuestionID is not in the key change nothing: report and
\* summary are those of E without them.
C8_KeyDriven ==
    Scored =>
        /\ \A i \in 1..Len(report) : report[i].QuestionID \in KeyQids(K)
        /\ report = ReportOf(K, SelectSeq(E, InKey))
        /\ summary[1] = SummaryOf(ReportOf(K, SelectSeq(E, InKey)))

C8_Witness ==
    /\ Scored
    /\ \E j \in 1..Len(E) : ~InKey(E[j])
    /\ \E j \in 1..Len(E) : InKey(E[j])

Covers ==
    \A i \in 1..Len(K) :
        \E j \in 1..Len(E) :
            /\ E[j].QuestionID = K[i].QuestionID
            /\ E[j].ChosenOption = K[i].CorrectOption

\* C9: when E holds, for every QuestionID of K, an answer with the correct
\* option, Total Score = 2 * len(K), Correct = len(K), Wrong = Not Attempted = 0.
C9_AllCorrect ==
    (Scored /\ Covers) =>
        /\ summary[1].TotalScore = 2 * Len(K)
        /\ summary[1].Correct = Len(K)
        /\ summary[1].Wrong = 0
        /\ summary[1].NotAttempted = 0

----------------------------------------------------------------------------
(* Properties of extract_answers_from_pdf (ExtractSpec) *)

Pages == uploaded_pdf.pages

QidsOn(p) == QidFindall(TextOf(Pages[p]))

ChosensOn(p) == ChosenFindall(TextOf(Pages[p]))

PairsOn(p) == MinOf(Len(QidsOn(p)), Len(ChosensOn(p)))

RECURSIVE PairsBefore(_)
\* The number of pairs of the pages before page p.
PairsBefore(p) == IF p <= 1 THEN 0 ELSE PairsBefore(p - 1) + PairsOn(p - 1)

----------------------------------------------------------------------------
(* Properties of the script run (Spec, FairSpec) *)

NothingScored ==
    /\ "calculate_score" \notin calls
    /\ "generate_excel_report" \notin calls
    /\ report = <<>>
    /\ summary = <<>>
    /\ excel_bytes = <<>>
    /\ shown \cap {"summary", "report", "download", "info: report generated"} = {}

Produced ==
    /\ pc = "end"
    /\ {"calculate_score", "generate_excel_report"} \subseteq calls
    /\ Len(report) >= 1
    /\ summary # <<>>
    /\ excel_bytes # <<>>
    /\ {"summary", "report", "download"} \subseteq shown

\* C5: an empty extraction result stops the run with the extraction-failed
\* message and neither calculate_score nor generate_excel_report is invoked;
\* a non-empty one always leads to a report and a summary.
C5_EmptyStopsElseCompletes ==
    /\ [][(pc = "check_empty" /\ my_answers = <<>>) =>
            (pc' = "stopped" /\ "error: could not extract" \in shown')]_vars
    /\ []("error: could not extract" \in shown => (pc = "stopped" /\ NothingScored))
    /\ (pc = "check_empty" /\ my_answers # <<>>) ~> Produced

C5_Witness ==
    /\ pc = "stopped"
    /\ "error: could not extract" \in shown
    /\ Len(Pages) >= 1

KeyUnusable == ~key_file.readable \/ ~key_file.columns_ok

\* C6: when the answer key cannot be loaded or lacks a required column, the
\* run stops there: no extraction, scoring or export, and no output but the
\* error message.
C6_BadKeyAborts ==
    KeyUnusable =>
        /\ pc \in {"load", "validate", "stopped"}
        /\ calls = {}
        /\ my_answers = <<>>
        /\ question_ids = <<>>
        /\ NothingScored
        /\ shown \subseteq {"error: answer key not found", "error: answer key columns"}

C6_Witness ==
    /\ pc = "stopped"
    /\ key_file.readable
    /\ ~key_file.columns_ok
    /\ "error: answer key columns" \in shown

====
